---- MODULE Spec2Model ----
(***************************************************************************)
(* Model of examples/parse/multimodal/multimodal_contextual_retrieval_rag  *)
(* (.ipynb): the page node builder (get_page_number,                       *)
(* _get_sorted_image_files, get_text_nodes), the context annotator         *)
(* (create_contextual_nodes), the two build-index cells and                *)
(* MultimodalQueryEngine.custom_query, run as the notebook runs them: one  *)
(* cell after the other, every external-service call blocking.             *)
(*                                                                         *)
(* A Python string is a sequence of tokens (each token a piece of text),   *)
(* so that formatting, joining and matching are computed, not assumed.     *)
(***************************************************************************)
EXTENDS Integers, Sequences, FiniteSets, TLC

VARIABLES
    run,            \* number of the current invocation of the notebook
    pc,             \* the cell (or the blocking call inside it) being executed
    fault,          \* the unhandled exception that ended the run, "none" if none
    names,          \* the global names bound in the kernel
    md_json_list,   \* md_json_objs[0]["pages"]: the per-page text records
    image_dir,      \* entries of data_images_iconiq, in iterdir() order
    heap,           \* TextNode objects: object id -> metadata
    text_nodes,     \* global text_nodes: list of object ids
    new_text_nodes, \* global new_text_nodes: list of object ids
    ccn,            \* locals of the running create_contextual_nodes call
    inflight,       \* requests sent to an external service and not yet answered
    llm_log,        \* this run's llm.chat requests, with the reply once received
    index,          \* global index (contextual)
    base_index,     \* global base_index
    storage,        \* the two persist directories on disk
    writes,         \* per store: how often persist() has written it
    query_engine,   \* global query_engine
    base_query_engine, \* global base_query_engine
    qcall,          \* locals of the running custom_query call
    response,       \* global response
    base_response,  \* global base_response
    llm,            \* global llm: the live service, or a deterministic stub
    ccn_results,    \* what each call of create_contextual_nodes returned
    stats,          \* calls made by the query cells of this kernel
    persisted       \* per store: the in-memory index that was persisted,
                    \* and whether this run persisted it

vars == <<run, pc, fault, names, md_json_list, image_dir, heap, text_nodes,
          new_text_nodes, ccn, inflight, llm_log, index, base_index, storage,
          writes, query_engine, base_query_engine, qcall, response,
          base_response, llm, ccn_results, stats, persisted>>

---------------------------------------------------------------------------
(* Bounds of the model *)

MaxPages == 2    \* most pages the parsing service returns for a document
MaxFiles == 3    \* most entries of an arbitrary image directory
MaxRuns == 2     \* invocations of the notebook that are followed

---------------------------------------------------------------------------
(* Strings *)

\* sep.join(parts) for a sequence of strings
RECURSIVE Join(_, _)
Join(sep, parts) ==
    IF parts = <<>> THEN <<>>
    ELSE IF Len(parts) = 1 THEN parts[1]
    ELSE parts[1] \o sep \o Join(sep, Tail(parts))

Digits == {"0", "1", "2", "3", "4", "5", "6", "7", "8", "9"}

DigitVal(t) ==
    CASE t = "0" -> 0 [] t = "1" -> 1 [] t = "2" -> 2 [] t = "3" -> 3
      [] t = "4" -> 4 [] t = "5" -> 5 [] t = "6" -> 6 [] t = "7" -> 7
      [] t = "8" -> 8 [] t = "9" -> 9

\* int(digits)
RECURSIVE IntOf(_)
IntOf(ds) ==
    IF ds = <<>> THEN 0
    ELSE 10 * IntOf(SubSeq(ds, 1, Len(ds) - 1)) + DigitVal(ds[Len(ds)])

\* number of consecutive digit tokens of s that end at position i
RECURSIVE DigitRun(_, _)
DigitRun(s, i) ==
    IF i >= 1 /\ s[i] \in Digits THEN 1 + DigitRun(s, i - 1) ELSE 0

\* needle in s, for a needle that is one token
Contains(s, needle) == \E i \in 1..Len(s) : s[i] = needle

---------------------------------------------------------------------------
(* Page node builder *)

IMAGE_DIR == <<"data_images_iconiq/">>

\* str(f) for an entry f of the image directory
StrPath(f) == IMAGE_DIR \o f.name

\* re.search with the group (\d) in place of (\d+): one digit only
get_page_number_one_digit(file_name) ==
    LET s == file_name
        n == Len(s)
        match == /\ n >= 4
                 /\ s[n] = ".jpg"
                 /\ s[n - 1] \in Digits
                 /\ s[n - 2] = "_"
                 /\ s[n - 3] = "-page"
    IN  IF match THEN DigitVal(s[n - 1]) ELSE 0

\* re.search(r"-page_(\d+)\.jpg$", str(file_name)): the page number, else 0;
\* $ matches at the end of the string and before a newline that ends it
get_page_number(file_name) ==
    LET s == IF file_name # <<>> /\ file_name[Len(file_name)] = "\n"
             THEN SubSeq(file_name, 1, Len(file_name) - 1)
             ELSE file_name
        n == Len(s)
        k == IF n >= 1 /\ s[n] = ".jpg" THEN DigitRun(s, n - 1) ELSE 0
        match == /\ k >= 1
                 /\ n - k - 2 >= 1
                 /\ s[n - k - 1] = "_"
                 /\ s[n - k - 2] = "-page"
    IN  IF match THEN IntOf(SubSeq(s, n - k, n - 1)) ELSE 0

\* the position sorted() gives x in an already sorted list: after every
\* element whose key is not greater (sorted() is stable)
RECURSIVE InsertByPage(_, _)
InsertByPage(sorted, x) ==
    IF sorted = <<>> THEN <<x>>
    ELSE IF get_page_number(StrPath(x)) < get_page_number(StrPath(Head(sorted)))
         THEN <<x>> \o sorted
         ELSE <<Head(sorted)>> \o InsertByPage(Tail(sorted), x)

\* sorted(raw_files, key=get_page_number)
RECURSIVE SortedByPage(_)
SortedByPage(files) ==
    IF files = <<>> THEN <<>>
    ELSE InsertByPage(SortedByPage(SubSeq(files, 1, Len(files) - 1)),
                      files[Len(files)])

\* f.is_file() and "-page" in str(f)
Admitted(f) == f.is_file /\ Contains(StrPath(f), "-page")

_get_sorted_image_files(entries) == SortedByPage(SelectSeq(entries, Admitted))

\* the metadata with "page_num": idx, the index counted from 0 as enumerate
\* counts it
ChunkMetadataZeroBased(image_files, md_texts, idx) ==
    [page_num |-> idx - 1,
     image_path |-> StrPath(image_files[idx]),
     parsed_text_markdown |-> md_texts[idx]]

\* the metadata of the TextNode get_text_nodes builds for text record idx
\* (idx counted from 1 here, from 0 in the source)
ChunkMetadata(image_files, md_texts, idx) ==
    [page_num |-> idx,
     image_path |-> StrPath(image_files[idx]),
     parsed_text_markdown |-> md_texts[idx]]

\* get_text_nodes written with zip(md_texts, image_files): pairing stops at the
\* shorter list and nothing is raised
get_text_nodes_zip(entries, json_dicts) ==
    LET image_files == _get_sorted_image_files(entries)
        md_texts == [i \in 1..Len(json_dicts) |-> json_dicts[i].md]
        n == IF Len(md_texts) < Len(image_files) THEN Len(md_texts)
             ELSE Len(image_files)
    IN  [raised |-> "none",
         nodes |-> [i \in 1..n |-> ChunkMetadata(image_files, md_texts, i)]]

\* get_text_nodes(image_dir, json_dicts): the metadata of the nodes it returns,
\* or IndexError at the first text record that has no image file
get_text_nodes(entries, json_dicts) ==
    LET image_files == _get_sorted_image_files(entries)
        md_texts == [i \in 1..Len(json_dicts) |-> json_dicts[i].md]
    IN  IF Len(md_texts) > Len(image_files)
        THEN [raised |-> "IndexError", nodes |-> <<>>]
        ELSE [raised |-> "none",
              nodes |-> [i \in 1..Len(md_texts) |->
                            ChunkMetadata(image_files, md_texts, i)]]

---------------------------------------------------------------------------
(* Inputs *)

\* file names an image directory may hold
PageFile(job, digits) == <<job, "-page", "_">> \o digits \o <<".jpg">>

FilePool ==
    {[name |-> PageFile("a", <<"1">>), is_file |-> TRUE],
     [name |-> PageFile("a", <<"2">>), is_file |-> TRUE],
     [name |-> PageFile("a", <<"3">>), is_file |-> TRUE],
     [name |-> PageFile("a", <<"1", "0">>), is_file |-> TRUE],
     [name |-> PageFile("b", <<"1">>), is_file |-> TRUE],
     [name |-> PageFile("a", <<"0">>), is_file |-> TRUE],
     [name |-> PageFile("a", <<"7">>) \o <<"\n">>, is_file |-> TRUE],
     [name |-> <<"a", "-page", "_", "2", ".png">>, is_file |-> TRUE],
     [name |-> <<"a", "-img", "_", "p", "1", ".jpg">>, is_file |-> TRUE],
     [name |-> PageFile("c", <<"2">>), is_file |-> FALSE]}

\* the sequences of at most n distinct elements of S
RECURSIVE Arrangements(_, _)
Arrangements(S, n) ==
    IF n = 0 THEN {<<>>}
    ELSE LET shorter == Arrangements(S, n - 1)
         IN  shorter \cup
             {Append(q, x) : <<q, x>> \in
                 {p \in shorter \X S :
                     /\ Len(p[1]) = n - 1
                     /\ \A i \in 1..Len(p[1]) : p[1][i] # p[2]}}

\* the text records of a document of n pages
PageText(i) == <<"md", ToString(i)>>
ParsedPages(n) == [i \in 1..n |-> [md |-> PageText(i)]]

\* text records with arbitrary text
Texts == {<<"t1">>, <<"t2">>}
RECURSIVE TextRecords(_)
TextRecords(n) ==
    IF n = 0 THEN {<<>>}
    ELSE LET shorter == TextRecords(n - 1)
         IN  shorter \cup
             {Append(q, [md |-> t]) : <<q, t>> \in
                 {p \in shorter \X Texts : Len(p[1]) = n - 1}}

\* the images parser.get_images writes for a document of n pages
ParsedImages(n) ==
    [i \in 1..n |-> [name |-> PageFile("a", <<ToString(i)>>), is_file |-> TRUE]]

---------------------------------------------------------------------------
(* State of a fresh kernel *)

NoCcn == [nodes |-> <<>>, nodes_modified |-> <<>>, doc_text |-> <<>>,
          idx |-> 0, new_node |-> 0]
NoIndex == [index_id |-> "", nodes |-> <<>>, embed_model |-> ""]
NoEngine == [retriever |-> [nodes |-> <<>>, similarity_top_k |-> 0,
                            embed_model |-> ""]]
NoCall == [engine |-> "none", query_str |-> <<>>, nodes |-> <<>>,
           image_nodes |-> <<>>, image_documents |-> <<>>, prompt |-> <<>>,
           retrievals |-> 0, completions |-> 0, stage |-> "idle"]
NoResponse == [response |-> <<>>, source_nodes |-> <<>>,
               metadata |-> [text_nodes |-> <<>>, image_nodes |-> <<>>]]
NoStore == [present |-> FALSE, index_id |-> "", nodes |-> <<>>]
NoStats == [queries |-> 0, retrievals |-> 0, completions |-> 0]
NoPersisted == [index |-> NoIndex, fresh |-> FALSE]

FreshKernel ==
    /\ fault = "none"
    /\ names = {}
    /\ heap = <<>>
    /\ text_nodes = <<>>
    /\ new_text_nodes = <<>>
    /\ ccn = NoCcn
    /\ inflight = <<>>
    /\ llm_log = <<>>
    /\ index = NoIndex
    /\ base_index = NoIndex
    /\ query_engine = NoEngine
    /\ base_query_engine = NoEngine
    /\ qcall = NoCall
    /\ response = NoResponse
    /\ base_response = NoResponse
    /\ ccn_results = <<>>
    /\ stats = NoStats

---------------------------------------------------------------------------
(* Cell f591669c: text_nodes = get_text_nodes(...) *)

\* the heap after allocating one object per metadata record of mds
Allocate(h, mds) == h \o mds

CellGetTextNodes ==
    /\ pc = "get_text_nodes"
    /\ LET r == get_text_nodes(image_dir, md_json_list)
       IN  IF r.raised # "none"
           THEN /\ pc' = "fault"
                /\ fault' = r.raised
                /\ UNCHANGED <<names, heap, text_nodes>>
           ELSE /\ pc' = "create_contextual_nodes"
                /\ heap' = Allocate(heap, r.nodes)
                /\ text_nodes' = [i \in 1..Len(r.nodes) |-> Len(heap) + i]
                /\ names' = names \cup {"text_nodes"}
                /\ UNCHANGED fault
    /\ UNCHANGED <<run, md_json_list, image_dir, new_text_nodes, ccn, inflight,
                   llm_log, index, base_index, storage, writes, query_engine,
                   base_query_engine, qcall, response, base_response,
                   llm, ccn_results, stats, persisted>>

---------------------------------------------------------------------------
(* External services: a call is sent, then the caller blocks until it is   *)
(* answered or fails                                                       *)

Send(svc) == Append(inflight, [svc |-> svc])

\* a failed llm.chat caught inside the loop: the chunk is skipped and the
\* loop goes on; any other failure ends the run
ServiceFailureSkipsChunk ==
    /\ inflight # <<>>
    /\ inflight' = <<>>
    /\ IF pc = "ccn_chat"
       THEN /\ pc' = "ccn_loop"
            /\ ccn' = [ccn EXCEPT !.idx = @ + 1]
            /\ UNCHANGED fault
       ELSE /\ pc' = "fault"
            /\ fault' = "ServiceError"
            /\ UNCHANGED ccn
    /\ UNCHANGED <<run, names, md_json_list, image_dir, heap, text_nodes,
                   new_text_nodes, llm_log, index, base_index, storage,
                   writes, query_engine, base_query_engine, qcall, response,
                   base_response,
                   llm, ccn_results, stats, persisted>>

\* any outstanding call may fail; nothing in the notebook catches the
\* exception, so the cell and the run end there
ServiceFailure ==
    /\ inflight # <<>>
    /\ pc' = "fault"
    /\ fault' = "ServiceError"
    /\ inflight' = <<>>
    /\ UNCHANGED <<run, names, md_json_list, image_dir, heap, text_nodes,
                   new_text_nodes, ccn, llm_log, index, base_index, storage,
                   writes, query_engine, base_query_engine, qcall, response,
                   base_response,
                   llm, ccn_results, stats, persisted>>

---------------------------------------------------------------------------
(* Cells ef82a985 and eeadb16c: the parsing service *)

CellParse ==
    /\ pc = "parse"
    /\ inflight' = Send("parse")
    /\ pc' = "parse_wait"
    /\ UNCHANGED <<run, fault, names, md_json_list, image_dir, heap,
                   text_nodes, new_text_nodes, ccn, llm_log, index, base_index,
                   storage, writes, query_engine, base_query_engine, qcall,
                   response, base_response,
                   llm, ccn_results, stats, persisted>>

ParseReturn(n) ==
    /\ pc = "parse_wait"
    /\ inflight' = <<>>
    /\ md_json_list' = ParsedPages(n)
    /\ names' = names \cup {"md_json_list"}
    /\ pc' = "get_images"
    /\ UNCHANGED <<run, fault, image_dir, heap, text_nodes, new_text_nodes,
                   ccn, llm_log, index, base_index, storage, writes,
                   query_engine, base_query_engine, qcall, response,
                   base_response,
                   llm, ccn_results, stats, persisted>>

CellGetImages ==
    /\ pc = "get_images"
    /\ inflight' = Send("images")
    /\ pc' = "get_images_wait"
    /\ UNCHANGED <<run, fault, names, md_json_list, image_dir, heap,
                   text_nodes, new_text_nodes, ccn, llm_log, index, base_index,
                   storage, writes, query_engine, base_query_engine, qcall,
                   response, base_response,
                   llm, ccn_results, stats, persisted>>

\* the page images are on disk; iterdir() lists them in an order of its own
GetImagesReturn(listing) ==
    /\ pc = "get_images_wait"
    /\ inflight' = <<>>
    /\ image_dir' = listing
    /\ pc' = "get_text_nodes"
    /\ UNCHANGED <<run, fault, names, md_json_list, heap, text_nodes,
                   new_text_nodes, ccn, llm_log, index, base_index, storage,
                   writes, query_engine, base_query_engine, qcall, response,
                   base_response,
                   llm, ccn_results, stats, persisted>>

Reverse(s) == [i \in 1..Len(s) |-> s[Len(s) + 1 - i]]
Listings(n) == {ParsedImages(n), Reverse(ParsedImages(n))}

---------------------------------------------------------------------------
(* Context annotator: cell b96842f9 *)

\* one "key: value" line of the metadata string
MetadataLine(key, value) == <<key, ": ">> \o value

\* TextNode.get_content(metadata_mode="all") for a node whose text is "":
\* the metadata, one line per key, in insertion order
GetContent(md) ==
    Join(<<"\n">>,
         <<MetadataLine("page_num", <<ToString(md.page_num)>>),
           MetadataLine("image_path", md.image_path),
           MetadataLine("parsed_text_markdown", md.parsed_text_markdown)>>
         \o (IF "context" \in DOMAIN md
             THEN <<MetadataLine("context", md.context)>>
             ELSE <<>>))

\* whole_doc_text.format(WHOLE_DOCUMENT=doc_text)
WholeDocText(doc_text) ==
    <<"Here is the entire document.\n<document>\n">> \o doc_text
    \o <<"\n</document>">>

\* chunk_text.format(CHUNK_CONTENT=content)
ChunkText(content) ==
    <<"Here is the chunk we want to situate within the whole document\n<chunk>\n">>
    \o content
    \o <<"\n</chunk>\nPlease give a short succinct context ... and nothing else.">>

\* "\n".join([n.get_content(metadata_mode="all") for n in nodes])
DocText(h, nodes) ==
    Join(<<"\n">>, [i \in 1..Len(nodes) |-> GetContent(h[nodes[i]])])

\* the prefix rebuilt in every iteration from the chunks reached so far
PrefixPartSoFar(h, c) ==
    [text |-> WholeDocText(DocText(h, SubSeq(c.nodes, 1, c.idx + 1))),
     type |-> "text", cache_control |-> [type |-> "ephemeral"]]

\* first content part of the user message: the whole document, cacheable
PrefixPart(h, c) ==
    [text |-> WholeDocText(c.doc_text), type |-> "text",
     cache_control |-> [type |-> "ephemeral"]]

\* the chunk part built from the first node in every iteration
ChunkPartFirst(h, c) ==
    [text |-> ChunkText(GetContent(h[c.nodes[1]])), type |-> "text"]

\* second content part of the user message: the chunk of this iteration
ChunkPart(h, c) ==
    [text |-> ChunkText(GetContent(h[c.nodes[c.idx + 1]])), type |-> "text"]

\* the messages with the summaries received so far in this call appended to
\* the user message, as a running conversation would carry them
MessagesWithEarlierSummaries(h, c) ==
    <<[role |-> "system", content |-> <<"You are a helpful AI Assistant.">>],
      [role |-> "user",
       content |-> <<PrefixPart(h, c), ChunkPart(h, c)>>
                   \o [i \in 1..Len(c.nodes_modified) |->
                          [text |-> h[c.nodes_modified[i]].context,
                           type |-> "text"]]]>>

\* messages = [ChatMessage(role="system", ...), ChatMessage(role="user", ...)]

Messages(h, c) ==
    <<[role |-> "system", content |-> <<"You are a helpful AI Assistant.">>],
      [role |-> "user", content |-> <<PrefixPart(h, c), ChunkPart(h, c)>>]>>

\* new_node = node: no copy, the same object
DeepCopyAlias(h, id) == [heap |-> h, id |-> id]

\* deepcopy(node): a new object with the same metadata
DeepCopy(h, id) == [heap |-> Append(h, h[id]), id |-> Len(h) + 1]

\* str(new_response) for a ChatResponse: the role, then the text
StrChatResponse(reply) == <<"assistant: ">> \o reply

\* node.metadata[key] = value on object id
SetMetadata(h, id, value) ==
    [h EXCEPT ![id] = [context |-> value] @@ h[id]]

Replies == {<<"r1">>, <<"r2">>}

\* llm = Anthropic(...): the live service answers as it likes; a stub put in
\* its place answers every request with a fixed function of the request
LIVE == "live"
Stubs == {"sized", "echo"}

\* the number of tokens of the user message of a request
RequestSize(messages) ==
    Len(messages[2].content[1].text) + Len(messages[2].content[2].text)

\* "sized" answers with the size of the request, "echo" with the chunk part
StubReply(stub, messages) ==
    IF stub = "sized" THEN <<"r", ToString(RequestSize(messages))>>
    ELSE messages[2].content[2].text

\* what llm.chat(messages) may return for the request sent last
LlmChat ==
    IF llm = LIVE \/ llm_log = <<>> THEN Replies
    ELSE {StubReply(llm, llm_log[Len(llm_log)].messages)}

\* create_contextual_nodes with nodes_modified kept from one call to the
\* next (a list made once, as a default argument is)
CellCreateContextualNodesKeepsList ==
    /\ pc = "create_contextual_nodes"
    /\ ccn' = [nodes |-> text_nodes,
               nodes_modified |-> ccn.nodes_modified,
               doc_text |-> DocText(heap, text_nodes),
               idx |-> 0,
               new_node |-> 0]
    /\ pc' = "ccn_loop"
    /\ UNCHANGED <<run, fault, names, md_json_list, image_dir, heap,
                   text_nodes, new_text_nodes, inflight, llm_log, index,
                   base_index, storage, writes, query_engine,
                   base_query_engine, qcall, response, base_response,
                   llm, ccn_results, stats, persisted>>

\* cell 50c9cfe9 calls create_contextual_nodes(text_nodes, llm)
CellCreateContextualNodes ==
    /\ pc = "create_contextual_nodes"
    /\ ccn' = [nodes |-> text_nodes,
               nodes_modified |-> <<>>,
               doc_text |-> DocText(heap, text_nodes),
               idx |-> 0,
               new_node |-> 0]
    /\ pc' = "ccn_loop"
    /\ UNCHANGED <<run, fault, names, md_json_list, image_dir, heap,
                   text_nodes, new_text_nodes, inflight, llm_log, index,
                   base_index, storage, writes, query_engine,
                   base_query_engine, qcall, response, base_response,
                   llm, ccn_results, stats, persisted>>

\* one iteration that sends the request and goes on without its answer
CcnRequestNoWait ==
    /\ pc = "ccn_loop"
    /\ ccn.idx < Len(ccn.nodes)
    /\ heap' = Append(heap, heap[ccn.nodes[ccn.idx + 1]])
    /\ ccn' = [ccn EXCEPT !.new_node = Len(heap) + 1,
                          !.nodes_modified = Append(@, Len(heap) + 1),
                          !.idx = @ + 1]
    /\ llm_log' = Append(llm_log, [messages |-> Messages(heap, ccn),
                                   answered |-> FALSE,
                                   reply |-> <<>>])
    /\ inflight' = Send("llm")
    /\ pc' = "ccn_loop"
    /\ UNCHANGED <<run, fault, names, md_json_list, image_dir, text_nodes,
                   new_text_nodes, index, base_index, storage, writes,
                   query_engine, base_query_engine, qcall, response,
                   base_response,
                   llm, ccn_results, stats, persisted>>

\* one iteration up to llm.chat(...)
CcnRequest ==
    /\ pc = "ccn_loop"
    /\ ccn.idx < Len(ccn.nodes)
    /\ LET copy == DeepCopy(heap, ccn.nodes[ccn.idx + 1])
       IN  /\ heap' = copy.heap
           /\ ccn' = [ccn EXCEPT !.new_node = copy.id]
           /\ llm_log' = Append(llm_log, [messages |-> Messages(heap, ccn),
                                          answered |-> FALSE,
                                          reply |-> <<>>])
    /\ inflight' = Send("llm")
    /\ pc' = "ccn_chat"
    /\ UNCHANGED <<run, fault, names, md_json_list, image_dir, text_nodes,
                   new_text_nodes, index, base_index, storage, writes,
                   query_engine, base_query_engine, qcall, response,
                   base_response,
                   llm, ccn_results, stats, persisted>>

\* llm.chat returns; the rest of the iteration
CcnResponse(reply) ==
    /\ pc = "ccn_chat"
    /\ reply \in LlmChat
    /\ inflight' = <<>>
    /\ llm_log' = [llm_log EXCEPT ![Len(llm_log)] =
                      [@ EXCEPT !.answered = TRUE, !.reply = reply]]
    /\ heap' = SetMetadata(heap, ccn.new_node, StrChatResponse(reply))
    /\ ccn' = [ccn EXCEPT !.nodes_modified = Append(@, ccn.new_node),
                          !.idx = @ + 1]
    /\ pc' = "ccn_loop"
    /\ UNCHANGED <<run, fault, names, md_json_list, image_dir, text_nodes,
                   new_text_nodes, index, base_index, storage, writes,
                   query_engine, base_query_engine, qcall, response,
                   base_response,
                   llm, ccn_results, stats, persisted>>

\* return nodes_modified, bound to new_text_nodes by the cell
CcnReturn ==
    /\ pc = "ccn_loop"
    /\ ccn.idx = Len(ccn.nodes)
    /\ new_text_nodes' = ccn.nodes_modified
    /\ ccn_results' = Append(ccn_results,
                          [i \in 1..Len(ccn.nodes_modified) |->
                              heap[ccn.nodes_modified[i]]])
    /\ names' = names \cup {"new_text_nodes"}
    /\ pc' = "build_index"
    /\ UNCHANGED <<run, fault, md_json_list, image_dir, heap, text_nodes, ccn,
                   inflight, llm_log, index, base_index, storage, writes,
                   query_engine, base_query_engine, qcall, response,
                   base_response,
                   llm, stats, persisted>>

---------------------------------------------------------------------------
(* Indexer: cells 6ea53c31 (contextual) and 2b1f0efa (baseline) *)

Stores == {"ctx", "base"}

\* the cell that builds or loads each index, and the cell after it
BuildCell(which) == IF which = "ctx" THEN "build_index" ELSE "build_base"
EmbedWait(which) == IF which = "ctx" THEN "build_index_embed" ELSE "build_base_embed"
AfterBuild(which) == IF which = "ctx" THEN "build_base" ELSE "make_engines"

\* the sentinel test left out: the index is always rebuilt
PathExistsNever(disk, which) == FALSE

\* os.path.exists("storage_nodes_iconiq") / ("storage_nodes_iconiq_base")
PathExists(disk, which) == disk[which].present

\* both cells build from text_nodes, the chunks before annotation
BuildInputUnannotated(which) ==
    [i \in 1..Len(text_nodes) |-> heap[text_nodes[i]]]

\* both cells build from new_text_nodes, the annotated chunks
BuildInputAnnotated(which) ==
    [i \in 1..Len(new_text_nodes) |-> heap[new_text_nodes[i]]]

\* the node list each cell hands to VectorStoreIndex
BuildInput(which) ==
    IF which = "ctx"
    THEN [i \in 1..Len(new_text_nodes) |-> heap[new_text_nodes[i]]]
    ELSE [i \in 1..Len(text_nodes) |-> heap[text_nodes[i]]]

\* embed_model = VoyageEmbedding(model_name="voyage-3")
EMBED_MODEL == "voyage-3"

\* Settings.embed_model left at the library's default
SettingsEmbedModelUnset == "default"

\* Settings.embed_model = embed_model: what an index uses that is given no
\* embed_model of its own
SettingsEmbedModel == EMBED_MODEL

\* the directory each cell persists to
PersistTarget(which) == which

\* if not os.path.exists(...): VectorStoreIndex(nodes, embed_model=embed_model)
\* asks the embedding service for the vectors of the nodes
BuildIndexEmbed(which) ==
    /\ pc = BuildCell(which)
    /\ ~PathExists(storage, which)
    /\ inflight' = Send("embed")
    /\ pc' = EmbedWait(which)
    /\ UNCHANGED <<run, fault, names, md_json_list, image_dir, heap,
                   text_nodes, new_text_nodes, ccn, llm_log, index, base_index,
                   storage, writes, query_engine, base_query_engine, qcall,
                   response, base_response,
                   llm, ccn_results, stats, persisted>>

\* the vectors are back: the index is built, named and persisted
BuildIndexPersist(which) ==
    /\ pc = EmbedWait(which)
    /\ inflight' = <<>>
    /\ LET built == [index_id |-> "vector_index", nodes |-> BuildInput(which),
                     embed_model |-> EMBED_MODEL]
           target == PersistTarget(which)
       IN  /\ IF which = "ctx"
              THEN index' = built /\ UNCHANGED base_index
              ELSE base_index' = built /\ UNCHANGED index
           /\ storage' = [storage EXCEPT ![target] =
                             [present |-> TRUE, index_id |-> built.index_id,
                              nodes |-> built.nodes]]
           /\ writes' = [writes EXCEPT ![target] = @ + 1]
           /\ persisted' = [persisted EXCEPT ![target] =
                                [index |-> built, fresh |-> TRUE]]
    /\ names' = names \cup (IF which = "ctx" THEN {"index", "retriever"}
                            ELSE {"base_index"})
    /\ pc' = AfterBuild(which)
    /\ UNCHANGED <<run, fault, md_json_list, image_dir, heap, text_nodes,
                   new_text_nodes, ccn, llm_log, query_engine,
                   base_query_engine, qcall, response, base_response,
                   llm, ccn_results, stats>>

\* else: load_index_from_storage(storage_context, index_id="vector_index")
BuildIndexLoad(which) ==
    /\ pc = BuildCell(which)
    /\ PathExists(storage, which)
    /\ LET loaded == [index_id |-> storage[which].index_id,
                      nodes |-> storage[which].nodes,
                      embed_model |-> SettingsEmbedModel]
       IN  IF which = "ctx"
           THEN index' = loaded /\ UNCHANGED base_index
           ELSE base_index' = loaded /\ UNCHANGED index
    /\ names' = names \cup (IF which = "ctx" THEN {"index", "retriever"}
                            ELSE {"base_index"})
    /\ pc' = AfterBuild(which)
    /\ UNCHANGED <<run, fault, md_json_list, image_dir, heap, text_nodes,
                   new_text_nodes, ccn, inflight, llm_log, storage, writes,
                   query_engine, base_query_engine, qcall, response,
                   base_response,
                   llm, ccn_results, stats, persisted>>

---------------------------------------------------------------------------
(* Multimodal query engine: cells 35a94be2 and 0890be59 *)

SIMILARITY_TOP_K == 3

\* index.as_retriever(similarity_top_k=k): queries are embedded with the
\* index's embed model
AsRetriever(idx, k) ==
    [nodes |-> idx.nodes, similarity_top_k |-> k, embed_model |-> idx.embed_model]

CellMakeEngines ==
    /\ pc = "make_engines"
    /\ query_engine' = [retriever |-> AsRetriever(index, SIMILARITY_TOP_K)]
    /\ base_query_engine' =
           [retriever |-> AsRetriever(base_index, SIMILARITY_TOP_K)]
    /\ names' = names \cup {"query_engine", "base_query_engine"}
    /\ pc' = "query"
    /\ UNCHANGED <<run, fault, md_json_list, image_dir, heap, text_nodes,
                   new_text_nodes, ccn, inflight, llm_log, index, base_index,
                   storage, writes, qcall, response, base_response,
                   llm, ccn_results, stats, persisted>>

Min(a, b) == IF a < b THEN a ELSE b

\* what retriever.retrieve may return: the similarity_top_k nodes of the
\* index nearest to the query (all of them if there are fewer), nearest
\* first; which nodes are nearest is the embedding service's matter
Retrievals(retriever) ==
    LET n == Len(retriever.nodes)
        k == Min(retriever.similarity_top_k, n)
    IN  {[i \in 1..k |-> [node |-> retriever.nodes[order[i]], score |-> k - i]] :
            order \in {o \in Arrangements(1..n, k) : Len(o) = k}}

\* an image reference for the best hit only
ImageNodesFirstOnly(nodes) ==
    [i \in 1..Min(1, Len(nodes)) |->
        [node |-> [image_path |-> nodes[i].node.image_path]]]

\* [NodeWithScore(node=ImageNode(image_path=n.metadata["image_path"])) for n in nodes]
ImageNodes(nodes) ==
    [i \in 1..Len(nodes) |->
        [node |-> [image_path |-> nodes[i].node.image_path]]]

\* "\n\n".join([r.get_content(metadata_mode=MetadataMode.LLM) for r in nodes])
ContextStr(nodes) ==
    Join(<<"\n\n">>, [i \in 1..Len(nodes) |-> GetContent(nodes[i].node)])

\* QA_PROMPT.format(context_str=context_str, query_str=query_str)
FmtPrompt(context_str, query_str) ==
    <<"Below we give parsed text ...\n---------------------\n">>
    \o context_str
    \o <<"\n---------------------\nGiven the context information ...\n\nQuery: ">>
    \o query_str \o <<"\nAnswer: ">>

\* [image_node.node for image_node in image_nodes]
ImageDocuments(image_nodes) ==
    [i \in 1..Len(image_nodes) |-> image_nodes[i].node]

QUERY_1 == <<"which departments/teams use genAI the most and how are they using it?">>

Engine(name) == IF name = "query_engine" THEN query_engine ELSE base_query_engine

\* an engine that keeps its last result: a query cell that finds the
\* result of an earlier execution returns it without calling the retriever
CellQueryCached ==
    /\ pc \in {"query", "base_query"}
    /\ IF (IF pc = "query" THEN "response" ELSE "base_response") \in names
       THEN /\ qcall' = [qcall EXCEPT
                            !.engine = IF pc = "query" THEN "query_engine"
                                       ELSE "base_query_engine",
                            !.stage = "returned"]
            /\ stats' = [stats EXCEPT !.queries = @ + 1]
            /\ pc' = IF pc = "query" THEN "base_query"
                     ELSE "get_source_page_nums"
            /\ UNCHANGED inflight
       ELSE /\ qcall' = [NoCall EXCEPT
                            !.engine = IF pc = "query" THEN "query_engine"
                                       ELSE "base_query_engine",
                            !.query_str = QUERY_1,
                            !.retrievals = 1,
                            !.stage = "retrieve"]
            /\ inflight' = Send("retrieve")
            /\ stats' = [stats EXCEPT !.queries = @ + 1, !.retrievals = @ + 1]
            /\ pc' = "custom_query_retrieve"
    /\ UNCHANGED <<run, fault, names, md_json_list, image_dir, heap,
                   text_nodes, new_text_nodes, ccn, llm_log, index, base_index,
                   storage, writes, query_engine, base_query_engine, response,
                   base_response, llm, ccn_results, persisted>>

\* cells 0fd1aae3 and c9cc48ee: engine.query(...) enters custom_query, which
\* calls self.retriever.retrieve(query_str)
CellQuery ==
    /\ pc \in {"query", "base_query"}
    /\ qcall' = [NoCall EXCEPT
                    !.engine = IF pc = "query" THEN "query_engine"
                               ELSE "base_query_engine",
                    !.query_str = QUERY_1,
                    !.retrievals = 1,
                    !.stage = "retrieve"]
    /\ inflight' = Send("retrieve")
    /\ stats' = [stats EXCEPT !.queries = @ + 1, !.retrievals = @ + 1]
    /\ pc' = "custom_query_retrieve"
    /\ UNCHANGED <<run, fault, names, md_json_list, image_dir, heap,
                   text_nodes, new_text_nodes, ccn, llm_log, index, base_index,
                   storage, writes, query_engine, base_query_engine, response,
                   base_response,
                   llm, ccn_results, persisted>>

\* retrieve returned nodes; custom_query runs on to multi_modal_llm.complete
CustomQueryRetrieved(nodes) ==
    /\ pc = "custom_query_retrieve"
    /\ LET image_nodes == ImageNodes(nodes)
       IN  qcall' = [qcall EXCEPT
                        !.nodes = nodes,
                        !.image_nodes = image_nodes,
                        !.prompt = FmtPrompt(ContextStr(nodes), qcall.query_str),
                        !.image_documents = ImageDocuments(image_nodes),
                        !.completions = @ + 1,
                        !.stage = "complete"]
    /\ inflight' = Append(Tail(inflight), [svc |-> "complete"])
    /\ stats' = [stats EXCEPT !.completions = @ + 1]
    /\ pc' = "custom_query_complete"
    /\ UNCHANGED <<run, fault, names, md_json_list, image_dir, heap,
                   text_nodes, new_text_nodes, ccn, llm_log, index, base_index,
                   storage, writes, query_engine, base_query_engine, response,
                   base_response,
                   llm, ccn_results, persisted>>

\* a Response that reports the best hit only as its source
MakeResponseBestOnly(c, llm_response) ==
    [response |-> llm_response,
     source_nodes |-> SubSeq(c.nodes, 1, Min(1, Len(c.nodes))),
     metadata |-> [text_nodes |-> c.nodes, image_nodes |-> c.image_nodes]]

\* Response(response=str(llm_response), source_nodes=nodes, metadata={...})
MakeResponse(c, llm_response) ==
    [response |-> llm_response,
     source_nodes |-> c.nodes,
     metadata |-> [text_nodes |-> c.nodes, image_nodes |-> c.image_nodes]]

Answers == {<<"answer">>}

\* complete returned; custom_query returns and the cell binds the result
CustomQueryCompleted(llm_response) ==
    /\ pc = "custom_query_complete"
    /\ inflight' = <<>>
    /\ qcall' = [qcall EXCEPT !.stage = "returned"]
    /\ IF qcall.engine = "query_engine"
       THEN /\ response' = MakeResponse(qcall, llm_response)
            /\ names' = names \cup {"response"}
            /\ pc' = "base_query"
            /\ UNCHANGED base_response
       ELSE /\ base_response' = MakeResponse(qcall, llm_response)
            /\ names' = names \cup {"base_response"}
            /\ pc' = "get_source_page_nums"
            /\ UNCHANGED response
    /\ UNCHANGED <<run, fault, md_json_list, image_dir, heap, text_nodes,
                   new_text_nodes, ccn, llm_log, index, base_index, storage,
                   writes, query_engine, base_query_engine,
                   llm, ccn_results, stats, persisted>>

\* cell 5b7a8c5f calls get_source_page_nums, a name no cell defines
CellGetSourcePageNums ==
    /\ pc = "get_source_page_nums"
    /\ "get_source_page_nums" \notin names
    /\ pc' = "fault"
    /\ fault' = "NameError"
    /\ UNCHANGED <<run, names, md_json_list, image_dir, heap, text_nodes,
                   new_text_nodes, ccn, inflight, llm_log, index, base_index,
                   storage, writes, query_engine, base_query_engine, qcall,
                   response, base_response,
                   llm, ccn_results, stats, persisted>>

---------------------------------------------------------------------------
(* Runs of the notebook *)

\* the notebook is invoked again: a fresh kernel over the same disk
NewRun ==
    /\ pc = "fault"
    /\ run < MaxRuns
    /\ run' = run + 1
    /\ pc' = "parse"
    /\ fault' = "none"
    /\ names' = {}
    /\ md_json_list' = <<>>
    /\ image_dir' = <<>>
    /\ heap' = <<>>
    /\ text_nodes' = <<>>
    /\ new_text_nodes' = <<>>
    /\ ccn' = NoCcn
    /\ inflight' = <<>>
    /\ llm_log' = <<>>
    /\ index' = NoIndex
    /\ base_index' = NoIndex
    /\ query_engine' = NoEngine
    /\ base_query_engine' = NoEngine
    /\ qcall' = NoCall
    /\ response' = NoResponse
    /\ base_response' = NoResponse
    /\ ccn_results' = <<>>
    /\ stats' = NoStats
    /\ persisted' = [w \in Stores |-> [persisted[w] EXCEPT !.fresh = FALSE]]
    /\ UNCHANGED <<storage, writes, llm>>

Init ==
    /\ run = 1
    /\ pc = "parse"
    /\ FreshKernel
    /\ md_json_list = <<>>
    /\ image_dir = <<>>
    /\ storage = [ctx |-> NoStore, base |-> NoStore]
    /\ writes = [ctx |-> 0, base |-> 0]
    /\ persisted = [ctx |-> NoPersisted, base |-> NoPersisted]
    /\ llm = LIVE

Next ==
    \/ CellParse
    \/ \E n \in 0..MaxPages : ParseReturn(n)
    \/ CellGetImages
    \/ \E listing \in Listings(Len(md_json_list)) : GetImagesReturn(listing)
    \/ CellGetTextNodes
    \/ CellCreateContextualNodes
    \/ CcnRequest
    \/ \E reply \in Replies : CcnResponse(reply)
    \/ CcnReturn
    \/ \E which \in Stores : BuildIndexEmbed(which)
    \/ \E which \in Stores : BuildIndexPersist(which)
    \/ \E which \in Stores : BuildIndexLoad(which)
    \/ CellMakeEngines
    \/ CellQuery
    \/ \E nodes \in Retrievals(Engine(qcall.engine).retriever) :
           CustomQueryRetrieved(nodes)
    \/ \E llm_response \in Answers : CustomQueryCompleted(llm_response)
    \/ CellGetSourcePageNums
    \/ ServiceFailure
    \/ NewRun

Spec == Init /\ [][Next]_vars

---------------------------------------------------------------------------
(* The page node builder on an arbitrary directory and arbitrary records *)

InitPair ==
    /\ run = 1
    /\ pc = "get_text_nodes"
    /\ FreshKernel
    /\ md_json_list \in TextRecords(MaxPages)
    /\ image_dir \in Arrangements(FilePool, MaxFiles)
    /\ storage = [ctx |-> NoStore, base |-> NoStore]
    /\ writes = [ctx |-> 0, base |-> 0]
    /\ persisted = [ctx |-> NoPersisted, base |-> NoPersisted]
    /\ llm = LIVE

NextPair == CellGetTextNodes

SpecPair == InitPair /\ [][NextPair]_vars

---------------------------------------------------------------------------
(* Properties of the page node builder (checked under SpecPair) *)

\* the image files get_text_nodes pairs with the text records
ImageFiles == _get_sorted_image_files(image_dir)

\* get_text_nodes has run (and returned or raised)
PairingDone == pc # "get_text_nodes"

\* C1: whenever as many image files are admitted as there are text records,
\* every node get_text_nodes returns has the page_num that get_page_number
\* reads from the node's image_path.
C1_PageNumMatchesImagePage ==
    (PairingDone /\ Len(ImageFiles) = Len(md_json_list)) =>
        /\ "text_nodes" \in names
        /\ \A i \in 1..Len(text_nodes) :
              heap[text_nodes[i]].page_num
                  = get_page_number(heap[text_nodes[i]].image_path)

\* C6 as claimed: whenever the number of admitted image files differs from
\* the number of text records, get_text_nodes raises nothing and returns one
\* node per text record.
C6_MismatchNeverRaises ==
    (PairingDone /\ Len(ImageFiles) # Len(md_json_list)) =>
        /\ fault = "none"
        /\ "text_nodes" \in names
        /\ Len(text_nodes) = Len(md_json_list)

\* C6 amended: with more admitted image files than text records,
\* get_text_nodes raises nothing and returns one node per text record, the
\* i-th carrying the i-th record's text and the i-th file of the sorted
\* listing (the files after the last record are left out); with fewer, it
\* raises IndexError and returns no node at all.
C6_MismatchSurplusPairsShortageRaises ==
    PairingDone =>
        /\ Len(ImageFiles) > Len(md_json_list) =>
              /\ fault = "none"
              /\ "text_nodes" \in names
              /\ Len(text_nodes) = Len(md_json_list)
              /\ \A i \in 1..Len(text_nodes) :
                    /\ heap[text_nodes[i]].image_path = StrPath(ImageFiles[i])
                    /\ heap[text_nodes[i]].parsed_text_markdown
                           = md_json_list[i].md
        /\ Len(ImageFiles) < Len(md_json_list) =>
              /\ pc = "fault"
              /\ fault = "IndexError"
              /\ "text_nodes" \notin names
              /\ text_nodes = <<>>
              /\ heap = <<>>

\* an image is missing for the last text records only: the first records
\* could have been paired, yet nothing is returned
C6_Witness ==
    /\ PairingDone
    /\ Len(ImageFiles) >= 1
    /\ Len(ImageFiles) < Len(md_json_list)
    /\ fault = "IndexError"

---------------------------------------------------------------------------
(* Properties of the context annotator (checked under Spec) *)

\* the metadata get_text_nodes gave the input nodes, before any annotation
InputMetadata == get_text_nodes(image_dir, md_json_list).nodes

\* the two content parts of the user message of the i-th llm.chat request
PrefixOf(i) == llm_log[i].messages[2].content[1]
ChunkOf(i) == llm_log[i].messages[2].content[2]

\* C2: create_contextual_nodes never mutates its input: while it runs, after
\* it returns and after it fails part-way, every input node has the metadata
\* get_text_nodes gave it, none carries a "context" entry, and no object is
\* in both the input list and the list of annotated nodes.
C2_InputNotMutated ==
    "text_nodes" \in names =>
        /\ LET mds == InputMetadata
           IN  /\ Len(text_nodes) = Len(mds)
               /\ \A i \in 1..Len(text_nodes) : heap[text_nodes[i]] = mds[i]
        /\ \A i \in 1..Len(text_nodes) :
              /\ "context" \notin DOMAIN heap[text_nodes[i]]
        /\ \A i \in 1..Len(text_nodes) :
              /\ \A j \in 1..Len(ccn.nodes_modified) :
                    text_nodes[i] # ccn.nodes_modified[j]
              /\ \A j \in 1..Len(new_text_nodes) :
                    text_nodes[i] # new_text_nodes[j]

\* two chunks were annotated and returned
C2_Witness ==
    /\ "new_text_nodes" \in names
    /\ Len(new_text_nodes) = 2
    /\ \A j \in 1..2 : "context" \in DOMAIN heap[new_text_nodes[j]]

\* C3: once create_contextual_nodes has returned over N input chunks, exactly
\* N requests were sent, the i-th with the content of the i-th input chunk as
\* its chunk part, and N nodes are returned in input order, the i-th being
\* the i-th input chunk plus a context made from the reply to request i.
C3_OneRequestPerChunkInOrder ==
    "new_text_nodes" \in names =>
        /\ Len(llm_log) = Len(text_nodes)
        /\ Len(new_text_nodes) = Len(text_nodes)
        /\ \A i \in 1..Len(text_nodes) :
              LET in == heap[text_nodes[i]]
                  out == heap[new_text_nodes[i]]
              IN  /\ llm_log[i].answered
                  /\ ChunkOf(i).text = ChunkText(GetContent(in))
                  /\ DOMAIN out = DOMAIN in \cup {"context"}
                  /\ \A k \in DOMAIN in : out[k] = in[k]
                  /\ out.context = StrChatResponse(llm_log[i].reply)

\* two chunks, answered differently
C3_Witness ==
    /\ "new_text_nodes" \in names
    /\ Len(new_text_nodes) = 2
    /\ llm_log[1].reply # llm_log[2].reply

\* C4: at most one external-service request is outstanding at any time: a
\* generation request is sent only when every earlier one of the run was
\* answered, and the multimodal request of custom_query only when its
\* retrieval has returned.
C4_OneRequestOutstanding ==
    /\ Len(inflight) <= 1
    /\ \A i \in 1..(Len(llm_log) - 1) : llm_log[i].answered
    /\ (\E i \in 1..Len(inflight) : inflight[i].svc = "complete") =>
           /\ qcall.stage = "complete"
           /\ \A i \in 1..Len(inflight) : inflight[i].svc # "retrieve"

\* the multimodal request is outstanding in a run that annotated two chunks
C4_Witness ==
    /\ pc = "custom_query_complete"
    /\ Len(inflight) = 1
    /\ Len(llm_log) = 2
    /\ Len(qcall.nodes) = 2

\* a generation request of this run has failed
LlmRequestFailed ==
    \E i \in 1..Len(llm_log) : ~llm_log[i].answered /\ pc # "ccn_chat"

LaterStageNames ==
    {"new_text_nodes", "index", "retriever", "base_index", "query_engine",
     "base_query_engine", "response", "base_response"}

\* C5: when the generation request for a chunk fails, the run ends there:
\* the failed request is the last one sent (no retry, no request for a later
\* chunk), the chunks annotated so far are not returned, and no later stage
\* (index build, engines, query) has executed; from the fault the only step
\* left is a new invocation of the notebook.
C5_FailedRequestEndsRun ==
    /\ [](LlmRequestFailed =>
            /\ pc = "fault"
            /\ fault = "ServiceError"
            /\ inflight = <<>>
            /\ ~llm_log[Len(llm_log)].answered
            /\ \A i \in 1..(Len(llm_log) - 1) : llm_log[i].answered
            /\ Len(llm_log) = ccn.idx + 1
            /\ Len(ccn.nodes_modified) = ccn.idx
            /\ new_text_nodes = <<>>
            /\ names \cap LaterStageNames = {}
            /\ index = NoIndex /\ base_index = NoIndex
            /\ qcall = NoCall
            /\ response = NoResponse /\ base_response = NoResponse)
    /\ [][LlmRequestFailed =>
            /\ run' = run + 1
            /\ storage' = storage
            /\ llm_log' = <<>>]_vars

\* the request for the second chunk failed after the first was annotated
C5_Witness ==
    /\ LlmRequestFailed
    /\ Len(ccn.nodes) = 2
    /\ ccn.idx = 1
    /\ "context" \in DOMAIN heap[ccn.nodes_modified[1]]

\* C7: within one call, the first content part (the whole document: every
\* input chunk's content joined in page order, flagged cache_control) is the
\* same in every request, and the second part differs from request to request.
C7_PrefixIdenticalAcrossRequests ==
    \A i \in 1..Len(llm_log) :
        /\ PrefixOf(i).text = WholeDocText(DocText(heap, text_nodes))
        /\ "cache_control" \in DOMAIN PrefixOf(i)
        /\ "cache_control" \notin DOMAIN ChunkOf(i)
        /\ \A j \in 1..Len(llm_log) :
              /\ PrefixOf(i) = PrefixOf(j)
              /\ i # j => ChunkOf(i).text # ChunkOf(j).text

\* two requests were sent
C7_Witness == Len(llm_log) = 2 /\ llm_log[2].answered

\* C8: the context stored for a chunk is exactly the text of the service's
\* reply for that chunk, nothing prepended, appended or altered.
C8_ContextIsReplyVerbatim ==
    \A j \in 1..Len(ccn.nodes_modified) :
        heap[ccn.nodes_modified[j]].context = llm_log[j].reply

---------------------------------------------------------------------------
(* Properties of the indexer and the query engine (checked under Spec) *)

\* C9: each store is written at most once over all runs: a build cell writes
\* its own store, and only when the store is absent; when the store is
\* present the cell only loads it (no embedding request, no write, the index
\* is what the store holds).
C9_StoresWrittenOnce ==
    /\ [](\A w \in Stores :
            /\ writes[w] <= 1
            /\ storage[w].present <=> writes[w] = 1)
    /\ [][\A w \in Stores :
            /\ (storage'[w] # storage[w] \/ writes'[w] # writes[w]) =>
                  /\ ~storage[w].present
                  /\ pc = EmbedWait(w)
            /\ (pc = BuildCell(w) /\ storage[w].present) =>
                  /\ inflight' = inflight
                  /\ storage' = storage
                  /\ writes' = writes
                  /\ (IF w = "ctx" THEN index' ELSE base_index').nodes
                         = storage[w].nodes
            /\ (pc = BuildCell(w) /\ inflight' # inflight) =>
                  ~storage[w].present]_vars

\* a later run loaded the contextual store instead of indexing its own nodes
C9_Witness ==
    /\ run = 2
    /\ pc = "build_base"
    /\ writes.ctx = 1
    /\ index.nodes = storage.ctx.nodes
    /\ index.nodes # BuildInput("ctx")

\* the result the running (or last) custom_query call was bound to
ResultOf(c) == IF c.engine = "query_engine" THEN response ELSE base_response

\* C10: every custom_query call makes one retrieval and then one multimodal
\* generation call, whatever is retrieved; the images passed to that call and
\* the result's image_nodes and source_nodes are as long as the retrieved
\* list and in its order, the i-th image made from the i-th chunk's image_path.
C10_OneRetrievalThenOneGeneration ==
    /\ qcall.stage = "retrieve" => qcall.retrievals = 1 /\ qcall.completions = 0
    /\ qcall.stage \in {"complete", "returned"} =>
          /\ qcall.retrievals = 1
          /\ qcall.completions = 1
          /\ Len(qcall.image_documents) = Len(qcall.nodes)
          /\ \A i \in 1..Len(qcall.nodes) :
                qcall.image_documents[i].image_path
                    = qcall.nodes[i].node.image_path
    /\ qcall.stage = "returned" =>
          LET r == ResultOf(qcall)
          IN  /\ r.source_nodes = qcall.nodes
              /\ Len(r.metadata.image_nodes) = Len(qcall.nodes)
              /\ \A i \in 1..Len(qcall.nodes) :
                    r.metadata.image_nodes[i].node.image_path
                        = qcall.nodes[i].node.image_path

\* a call returned two chunks, the second page ranked first
C10_Witness ==
    /\ qcall.stage = "returned"
    /\ Len(qcall.nodes) = 2
    /\ qcall.nodes[1].node.page_num = 2
    /\ qcall.nodes[1].node.image_path # qcall.nodes[2].node.image_path

---------------------------------------------------------------------------
(* The query cells executed again and again over an index of any size *)

MaxQueries == 3    \* query calls followed in one kernel

\* the largest index the query cells are run on: one chunk more than a
\* top-k retriever returns
MaxIndex == SIMILARITY_TOP_K + 1

\* chunk i of such an index; chunks 1 and 2 show the same page image
QueryChunk(i) ==
    [page_num |-> i,
     image_path |-> IMAGE_DIR
                    \o PageFile("a", <<ToString(IF i = 1 THEN 1 ELSE i - 1)>>),
     parsed_text_markdown |-> PageText(i)]

QueryIndex(n, annotated) ==
    [index_id |-> "vector_index",
     nodes |-> [i \in 1..n |->
                  IF annotated
                  THEN [context |-> StrChatResponse(<<"r1">>)] @@ QueryChunk(i)
                  ELSE QueryChunk(i)],
     embed_model |-> EMBED_MODEL]

\* the query cells are executed once more, both or the baseline one alone
RerunQueryCells ==
    /\ pc = "get_source_page_nums"
    /\ \/ stats.queries + 2 <= MaxQueries /\ pc' = "query"
       \/ stats.queries + 1 <= MaxQueries /\ pc' = "base_query"
    /\ UNCHANGED <<run, fault, names, md_json_list, image_dir, heap,
                   text_nodes, new_text_nodes, ccn, inflight, llm_log, index,
                   base_index, storage, writes, query_engine,
                   base_query_engine, qcall, response, base_response, llm,
                   ccn_results, stats, persisted>>

InitQuery ==
    /\ run = 1
    /\ pc = "make_engines"
    /\ fault = "none"
    /\ names = {"index", "retriever", "base_index"}
    /\ md_json_list = <<>>
    /\ image_dir = <<>>
    /\ heap = <<>>
    /\ text_nodes = <<>>
    /\ new_text_nodes = <<>>
    /\ ccn = NoCcn
    /\ inflight = <<>>
    /\ llm_log = <<>>
    /\ \E n \in 0..MaxIndex :
          /\ index = QueryIndex(n, TRUE)
          /\ base_index = QueryIndex(n, FALSE)
    /\ storage = [ctx |-> NoStore, base |-> NoStore]
    /\ writes = [ctx |-> 0, base |-> 0]
    /\ query_engine = NoEngine
    /\ base_query_engine = NoEngine
    /\ qcall = NoCall
    /\ response = NoResponse
    /\ base_response = NoResponse
    /\ llm = LIVE
    /\ ccn_results = <<>>
    /\ stats = NoStats
    /\ persisted = [ctx |-> NoPersisted, base |-> NoPersisted]

NextQuery ==
    \/ CellMakeEngines
    \/ CellQuery
    \/ \E nodes \in Retrievals(Engine(qcall.engine).retriever) :
           CustomQueryRetrieved(nodes)
    \/ \E llm_response \in Answers : CustomQueryCompleted(llm_response)
    \/ RerunQueryCells

SpecQuery == InitQuery /\ [][NextQuery]_vars

---------------------------------------------------------------------------
(* Properties of repeated queries (checked under SpecQuery) *)

\* no custom_query call is running
QueriesQuiescent == pc \in {"query", "base_query", "get_source_page_nums"}

\* C11: queries are never cached and retrieved pages never deduplicated:
\* at every moment as many retrieval calls have been made as query calls, and
\* once every call has returned as many generation calls too, also when the
\* same query text is asked again; the engines are still as they were
\* constructed, whatever calls were made; and a returned result holds one
\* image reference per retrieved chunk, at the chunk's position and with the
\* chunk's image_path, also when two chunks share an image_path.
C11_NoCachingNoDeduplication ==
    /\ stats.retrievals = stats.queries
    /\ QueriesQuiescent => stats.completions = stats.queries
    /\ "query_engine" \in names =>
          /\ query_engine = [retriever |-> AsRetriever(index, SIMILARITY_TOP_K)]
          /\ base_query_engine =
                 [retriever |-> AsRetriever(base_index, SIMILARITY_TOP_K)]
    /\ \A r \in {response, base_response} :
          /\ Len(r.metadata.image_nodes) = Len(r.source_nodes)
          /\ \A i \in 1..Len(r.source_nodes) :
                r.metadata.image_nodes[i].node.image_path
                    = r.source_nodes[i].node.image_path

\* the baseline cell was run a second time, and its result holds two chunks
\* that share an image_path
C11_Witness ==
    /\ stats.queries = 3
    /\ pc = "get_source_page_nums"
    /\ \E i, j \in 1..Len(base_response.source_nodes) :
          /\ i # j
          /\ base_response.source_nodes[i].node.image_path
                 = base_response.source_nodes[j].node.image_path
          /\ Len(base_response.metadata.image_nodes) = 3

---------------------------------------------------------------------------
(* Properties of get_page_number and _get_sorted_image_files (SpecPair) *)

\* the numbers N for which name ends in "-page_N.jpg", N a digit string
PageNumbersIn(name) ==
    LET n == Len(name)
    IN  {IntOf(SubSeq(name, i + 2, n - 1)) :
            i \in {i \in 1..(n - 3) :
                      /\ name[i] = "-page"
                      /\ name[i + 1] = "_"
                      /\ name[n] = ".jpg"
                      /\ \A j \in (i + 2)..(n - 1) : name[j] \in Digits}}

\* name without the newline that ends it, if one does
Chomp(name) ==
    IF name # <<>> /\ name[Len(name)] = "\n"
    THEN SubSeq(name, 1, Len(name) - 1) ELSE name

KeyOf(f) == get_page_number(StrPath(f))

\* C12 as stated: get_page_number returns N for every name ending in
\* "-page_N.jpg" and 0 for every other name; in the sorted list every file
\* whose name carries no page number precedes every file whose name carries
\* one, and the numbered files are in non-decreasing numeric order.
C12_SentinelFirstThenNumeric ==
    PairingDone =>
        /\ \A e \in 1..Len(image_dir) :
              LET name == image_dir[e].name
              IN  IF PageNumbersIn(name) # {}
                  THEN KeyOf(image_dir[e]) \in PageNumbersIn(name)
                  ELSE KeyOf(image_dir[e]) = 0
        /\ LET files == ImageFiles
               nums == [i \in 1..Len(files) |-> PageNumbersIn(files[i].name)]
           IN  \A i, j \in 1..Len(files) :
                  /\ (nums[i] = {} /\ nums[j] # {}) => i < j
                  /\ (i < j /\ nums[i] # {} /\ nums[j] # {})
                        => \A a \in nums[i], b \in nums[j] : a <= b

\* C12, amended: get_page_number returns N for every name that ends in
\* "-page_N.jpg", also when one newline follows, and 0 for every other name;
\* the sorted list holds exactly the admitted entries, in non-decreasing
\* order of that value and in directory order among equal values, so every
\* file of value 0 (no page number, or page number 0) precedes every file
\* of a positive page number.
C12_KeyZeroFirstThenNumeric ==
    PairingDone =>
        /\ \A e \in 1..Len(image_dir) :
              LET name == Chomp(image_dir[e].name)
              IN  IF PageNumbersIn(name) # {}
                  THEN KeyOf(image_dir[e]) \in PageNumbersIn(name)
                  ELSE KeyOf(image_dir[e]) = 0
        /\ LET files == ImageFiles
               keys == [i \in 1..Len(files) |-> KeyOf(files[i])]
           IN  /\ Len(files) = Len(SelectSeq(image_dir, Admitted))
               /\ \A i \in 1..Len(files) :
                     \E e \in 1..Len(image_dir) :
                         image_dir[e] = files[i] /\ Admitted(image_dir[e])
               /\ \A i, j \in 1..Len(files) :
                     i < j =>
                        /\ keys[i] <= keys[j]
                        /\ keys[i] = keys[j] =>
                              \E d, e \in 1..Len(image_dir) :
                                  /\ d < e
                                  /\ image_dir[d] = files[i]
                                  /\ image_dir[e] = files[j]

\* a directory listed as page 10, a .png page, page 2: sorted, the .png
\* (value 0) comes first and page 2 precedes page 10
C12_Witness ==
    /\ PairingDone
    /\ Len(image_dir) = 3
    /\ KeyOf(image_dir[1]) = 10
    /\ KeyOf(image_dir[3]) = 2
    /\ Len(ImageFiles) = 3
    /\ PageNumbersIn(ImageFiles[1].name) = {}
    /\ KeyOf(ImageFiles[2]) = 2
    /\ KeyOf(ImageFiles[3]) = 10

---------------------------------------------------------------------------
(* The annotator called repeatedly on the same chunks, with a stub for llm *)

MaxCalls == 2      \* calls of create_contextual_nodes on one chunk list

\* create_contextual_nodes(text_nodes, llm) is called once more
CallAgain ==
    /\ pc = "build_index"
    /\ Len(ccn_results) < MaxCalls
    /\ pc' = "create_contextual_nodes"
    /\ UNCHANGED <<run, fault, names, md_json_list, image_dir, heap,
                   text_nodes, new_text_nodes, ccn, inflight, llm_log, index,
                   base_index, storage, writes, query_engine,
                   base_query_engine, qcall, response, base_response, llm,
                   ccn_results, stats, persisted>>

InitTwice ==
    /\ run = 1
    /\ pc = "get_text_nodes"
    /\ FreshKernel
    /\ md_json_list \in TextRecords(MaxPages)
    /\ image_dir = ParsedImages(Len(md_json_list))
    /\ storage = [ctx |-> NoStore, base |-> NoStore]
    /\ writes = [ctx |-> 0, base |-> 0]
    /\ persisted = [ctx |-> NoPersisted, base |-> NoPersisted]
    /\ llm \in Stubs

NextTwice ==
    \/ CellGetTextNodes
    \/ CellCreateContextualNodes
    \/ CcnRequest
    \/ \E reply \in LlmChat : CcnResponse(reply)
    \/ CcnReturn
    \/ CallAgain

SpecTwice == InitTwice /\ [][NextTwice]_vars

---------------------------------------------------------------------------
(* Properties of repeated annotation (checked under SpecTwice) *)

\* C13: with a deterministic stub for llm, every call of
\* create_contextual_nodes on the same unmodified chunks returns the same
\* list: as many nodes as there are chunks, with the same metadata and the
\* same context value at every position, whatever earlier calls left behind.
C13_RepeatedAnnotationIdentical ==
    \A a, b \in 1..Len(ccn_results) :
        /\ Len(ccn_results[a]) = Len(text_nodes)
        /\ ccn_results[a] = ccn_results[b]

\* a second call has returned two annotated chunks whose contexts differ
C13_Witness ==
    /\ Len(ccn_results) = 2
    /\ Len(ccn_results[2]) = 2
    /\ ccn_results[2][1].context # ccn_results[2][2].context
    /\ pc = "build_index"

---------------------------------------------------------------------------
(* Properties of whole runs of the notebook (checked under Spec) *)

\* C14: a run of the notebook whose external calls all succeed and whose
\* counts match runs to completion: no cell ends in a fault, so the only
\* faults a run can end in are a failed external call and the IndexError of
\* mismatched counts.
C14_RunsToCompletion ==
    pc = "fault" => fault \in {"ServiceError", "IndexError"}

\* the global each build-index cell binds, and its value
IndexName(which) == IF which = "ctx" THEN "index" ELSE "base_index"
IndexOf(which) == IF which = "ctx" THEN index ELSE base_index

---------------------------------------------------------------------------
(* Properties of the top-k engines (checked under SpecQuery) *)

\* the source chunks of a result are those of a top-k retrieval over idx
TopKOf(r, idx) ==
    /\ Len(r.source_nodes) = Min(SIMILARITY_TOP_K, Len(idx.nodes))
    /\ \A i \in 1..Len(r.source_nodes) :
          \E c \in 1..Len(idx.nodes) : r.source_nodes[i].node = idx.nodes[c]
    /\ \A i, j \in 1..Len(r.source_nodes) :
          i < j => /\ r.source_nodes[i].score >= r.source_nodes[j].score
                   /\ r.source_nodes[i].node # r.source_nodes[j].node

---------------------------------------------------------------------------
(* Properties of the list get_text_nodes returns (checked under SpecPair) *)

\* C17: whenever get_text_nodes returns, it returns exactly one node per
\* text record, in record order: as many nodes as records, the i-th with
\* page_num i (1..N in order) and with the i-th record's text as its
\* parsed_text_markdown, whatever the image directory holds beyond that.
C17_OneNodePerRecordInOrder ==
    "text_nodes" \in names =>
        /\ Len(text_nodes) = Len(md_json_list)
        /\ \A i \in 1..Len(text_nodes) :
              /\ heap[text_nodes[i]].page_num = i
              /\ heap[text_nodes[i]].parsed_text_markdown = md_json_list[i].md
        /\ \A i, j \in 1..Len(text_nodes) : i # j => text_nodes[i] # text_nodes[j]

\* two records of different text were paired while the directory held three
\* admitted files
C17_Witness ==
    /\ "text_nodes" \in names
    /\ Len(text_nodes) = 2
    /\ Len(ImageFiles) = 3
    /\ md_json_list[1].md # md_json_list[2].md
    /\ heap[text_nodes[2]].page_num = 2

---------------------------------------------------------------------------
(* Independence of the annotation requests (checked under Spec) *)

\* the request create_contextual_nodes builds for chunk i of a chunk list
\* whose metadata is mds and whose joined content is doc_text: a function of
\* the chunk list and i alone
RequestFor(mds, doc_text, i) ==
    Messages(mds, [nodes |-> [j \in 1..Len(mds) |-> j],
                   nodes_modified |-> <<>>,
                   new_node |-> 0,
                   idx |-> i - 1,
                   doc_text |-> doc_text])

\* the tokens of a string
TokensOf(s) == {s[i] : i \in 1..Len(s)}

\* C18: the request sent for chunk i is a function of the input chunk list
\* alone: whatever the service replied for the chunks before it, it is the
\* request built from the input metadata and i, it has exactly the two
\* content parts, and no text of an earlier reply occurs in it.
C18_RequestsIndependentOfReplies ==
    LET mds == InputMetadata
        doc_text == DocText(mds, [j \in 1..Len(mds) |-> j])
    IN
    \A i \in 1..Len(llm_log) :
        /\ llm_log[i].messages = RequestFor(mds, doc_text, i)
        /\ Len(llm_log[i].messages[2].content) = 2
        /\ \A j \in 1..(i - 1) :
              TokensOf(StrChatResponse(llm_log[j].reply))
                  \cap (TokensOf(PrefixOf(i).text) \cup TokensOf(ChunkOf(i).text))
              = {}

\* the request for the second chunk has been sent after the first chunk was
\* answered "r2"
C18_Witness ==
    /\ pc = "ccn_chat"
    /\ Len(llm_log) = 2
    /\ llm_log[1].reply = <<"r2">>
    /\ heap[ccn.nodes_modified[1]].context = <<"assistant: ", "r2">>

---------------------------------------------------------------------------
(* Properties of the two indexes across runs (checked under Spec) *)

\* the chunks this run's annotation returned
AnnotatedChunks == [i \in 1..Len(new_text_nodes) |-> heap[new_text_nodes[i]]]

\* C19 as stated: after the build-index step of any run, the chunks the
\* contextual index holds are the chunks this run's annotation returned.
C19_IndexHoldsThisRunsChunks ==
    "index" \in names => index.nodes = AnnotatedChunks

\* C19, amended: after the build-index step, the contextual index holds
\* the chunks its directory holds; these are this run's annotated chunks if
\* the run found the directory absent and built the index, and otherwise
\* the chunks of the run that wrote the directory, whatever this run's
\* annotation returned.
C19_IndexHoldsChunksOfWritingRun ==
    "index" \in names =>
        /\ storage["ctx"].present
        /\ index.nodes = storage["ctx"].nodes
        /\ index.nodes = persisted["ctx"].index.nodes
        /\ persisted["ctx"].fresh => index.nodes = AnnotatedChunks

\* a second run annotated one chunk and loaded an index of two
C19_Witness ==
    /\ run = 2
    /\ "index" \in names
    /\ ~persisted["ctx"].fresh
    /\ Len(new_text_nodes) = 1
    /\ Len(index.nodes) = 2

\* the pages an index covers
PagesOf(idx) == {idx.nodes[i].page_num : i \in 1..Len(idx.nodes)}

\* two indexes cover the same document
SameDocument(a, b) ==
    /\ Len(a.nodes) = Len(b.nodes)
    /\ PagesOf(a) = PagesOf(b)
    /\ \A i \in 1..Len(a.nodes), j \in 1..Len(b.nodes) :
          a.nodes[i].page_num = b.nodes[j].page_num =>
             /\ a.nodes[i].parsed_text_markdown = b.nodes[j].parsed_text_markdown
             /\ a.nodes[i].image_path = b.nodes[j].image_path

\* every chunk of the contextual index is annotated, none of the baseline is
AnnotationSplit ==
    /\ \A i \in 1..Len(index.nodes) : "context" \in DOMAIN index.nodes[i]
    /\ \A i \in 1..Len(base_index.nodes) :
          "context" \notin DOMAIN base_index.nodes[i]

\* C20 as stated: whenever both query engines exist, the two indexes cover
\* the same document (same pages, same text and image path per page), every
\* contextual chunk is annotated and no baseline chunk is, whichever of the
\* two directories existed when the run started.
C20_IndexesCoverSameDocument ==
    "query_engine" \in names =>
        /\ SameDocument(index, base_index)
        /\ AnnotationSplit

\* C20, amended: whenever both query engines exist, every contextual chunk
\* is annotated and no baseline chunk is, whichever of the two directories
\* existed when the run started; each index holds what its directory holds;
\* and the two indexes cover the same document if the run found both
\* directories absent and built both indexes.
C20_SameDocumentWhenBothBuilt ==
    "query_engine" \in names =>
        /\ AnnotationSplit
        /\ index.nodes = storage["ctx"].nodes
        /\ base_index.nodes = storage["base"].nodes
        /\ (persisted["ctx"].fresh /\ persisted["base"].fresh) =>
               /\ SameDocument(index, base_index)
               /\ \A i \in 1..Len(index.nodes) :
                     index.nodes[i].page_num = base_index.nodes[i].page_num

\* both engines exist over a loaded contextual index of two pages and a
\* baseline index of one page built in this run
C20_Witness ==
    /\ "query_engine" \in names
    /\ ~persisted["ctx"].fresh
    /\ persisted["base"].fresh
    /\ Len(index.nodes) = 2
    /\ Len(base_index.nodes) = 1

====
